---- MODULE Spec2Model ----
(***************************************************************************)
(* CommandCenter 4.0: the forecast extraction of forecaster.py, the        *)
(* two-estimate validation of intelligence.validate / main.validate and    *)
(* the Project / Idea / Connection store behind the handlers of main.py.   *)
(*                                                                         *)
(* Probabilities are fixed-point integers: the float p is the integer      *)
(* p * Scale.  An Optional value is a sequence of length at most one:      *)
(* None is << >>, the value v is << v >>.                                  *)
(***************************************************************************)
EXTENDS Integers, Sequences, FiniteSets, TLC

VARIABLES
    pc,           \* which handler, if any, has a call prepared or completed
    forecaster,   \* forecasting service: token configured, call raises, response text
    claude,       \* reasoning service: call raises, response text (tokens)
    forecast_out, \* return value of get_calibrated_probability
    validate_out, \* outcome of intelligence.validate followed by main.validate
    foreign_keys, \* whether the database enforces FOREIGN KEY constraints
    projects,     \* rows of table projects: the set of their ids
    ideas,        \* rows of table ideas: [id, project_id, parent_id, status]
    connections,  \* rows of table connections: [id, source_id, target_id]
    issued,       \* number of ids issued so far to projects, ideas, connections
    lastOp,       \* the last store handler that ran, its arguments and outcome
    intelligence_out  \* what the last reasoning function or handler answered

vars == << pc, forecaster, claude, forecast_out, validate_out,
           foreign_keys, projects, ideas, connections, issued, lastOp,
           intelligence_out >>

\* ------------------------------------------------------------------ bounds
MaxLen == 7       \* longest forecasting-service response, in characters
MaxFcLen == 4     \* longest forecasting-service response inside validate
MaxProjects == 2      \* projects ever created
MaxIdeas == 2         \* ideas ever created
MaxConnections == 2   \* connections ever created
MaxBatch == 2         \* longest batch of create_ideas_batch

\* ------------------------------------------------------------- primitives
None == << >>
Some(v) == << v >>

Max2(a, b) == IF a >= b THEN a ELSE b
Min2(a, b) == IF a <= b THEN a ELSE b

RECURSIVE Pow10(_)
Pow10(n) == IF n <= 0 THEN 1 ELSE 10 * Pow10(n - 1)

\* 1.0 in fixed point; fine enough for every digit of a response of the
\* longest length
Scale == Pow10(Max2(MaxLen, MaxFcLen) - 2)

\* ----------------------------------------------- characters of a response
Alphabet == {"0", "1", ".", "%", "a"}

Texts(L) == UNION { [1..n -> Alphabet] : n \in 0..L }

IsDigit(c) == c \in {"0", "1"}
DigitValue(c) == IF c = "1" THEN 1 ELSE 0
\* \w of the regular expressions: letters, digits, underscore
IsWord(c) == c \in {"0", "1", "a"}

WordAt(t, i) == i >= 1 /\ i <= Len(t) /\ IsWord(t[i])
\* \b between the characters i-1 and i (i = Len(t)+1 is the end of the text)
Boundary(t, i) == WordAt(t, i - 1) # WordAt(t, i)

\* t has the literal lit at position s
Lit(t, s, lit) ==
    /\ s + Len(lit) - 1 <= Len(t)
    /\ \A k \in 1..Len(lit) : t[s + k - 1] = lit[k]

\* number of consecutive digits of t from position s on
RECURSIVE DigitRun(_, _)
DigitRun(t, s) ==
    IF s <= Len(t) /\ IsDigit(t[s]) THEN 1 + DigitRun(t, s + 1) ELSE 0

SetMax(S) == CHOOSE x \in S : \A y \in S : y <= x

\* r'\b(0\.\d+|1\.0|1\.00?)\b' tried at position s: the position after the
\* match, 0 when there is none.  Alternatives are tried in order, \d+ and 0?
\* greedily with backtracking.
DecimalMatchEnd(t, s) ==
    LET ends1 == { s + 2 + n : n \in { m \in 1..DigitRun(t, s + 2) :
                                          Boundary(t, s + 2 + m) } }
    IN  IF s > Len(t) \/ ~Boundary(t, s) THEN 0
        ELSE IF Lit(t, s, <<"0", ".">>) /\ ends1 # {} THEN SetMax(ends1)
        ELSE IF Lit(t, s, <<"1", ".", "0">>) /\ Boundary(t, s + 3) THEN s + 3
        ELSE IF Lit(t, s, <<"1", ".", "0", "0">>) /\ Boundary(t, s + 4) THEN s + 4
        ELSE 0

\* r'(\d{1,3})%' tried at position s: the position after the match, 0 when
\* there is none
PercentMatchEnd(t, s) ==
    LET ns == { n \in 1..3 : /\ n <= DigitRun(t, s)
                             /\ s + n <= Len(t)
                             /\ t[s + n] = "%" }
    IN  IF ns = {} THEN 0 ELSE s + SetMax(ns) + 1

\* re.findall: leftmost non-overlapping matches, scanning from pos; each match
\* is the pair of its first position and the position after its last
RECURSIVE FindAllDecimal(_, _)
FindAllDecimal(t, pos) ==
    IF pos > Len(t) THEN << >>
    ELSE LET e == DecimalMatchEnd(t, pos)
         IN  IF e = 0 THEN FindAllDecimal(t, pos + 1)
             ELSE << <<pos, e>> >> \o FindAllDecimal(t, e)

RECURSIVE FindAllPercent(_, _)
FindAllPercent(t, pos) ==
    IF pos > Len(t) THEN << >>
    ELSE LET e == PercentMatchEnd(t, pos)
         IN  IF e = 0 THEN FindAllPercent(t, pos + 1)
             ELSE << <<pos, e>> >> \o FindAllPercent(t, e)

\* int() of the digits t[s..e-1]
RECURSIVE IntOf(_, _, _)
IntOf(t, s, e) ==
    IF s >= e THEN 0 ELSE IntOf(t, s, e - 1) * 10 + DigitValue(t[e - 1])

\* float() of a decimal match t[s..e-1], which is d.ddd, in fixed point
FloatOf(t, s, e) ==
    DigitValue(t[s]) * Scale + IntOf(t, s + 2, e) * (Scale \div Pow10(e - s - 2))

\* min(max(prob, 0.0), 1.0)
Clamp(p) == Min2(Max2(p, 0), Scale)

LastOf(seq) == seq[Len(seq)]

\* ExtractProbability taking the first decimal match instead of the last
ExtractProbability_first(response) ==
    LET matches == FindAllDecimal(response, 1)
        pct_matches == FindAllPercent(response, 1)
    IN  IF matches # << >>
        THEN Some(Clamp(FloatOf(response, matches[1][1], matches[1][2])))
        ELSE IF pct_matches # << >>
        THEN Some(Clamp((IntOf(response, LastOf(pct_matches)[1],
                               LastOf(pct_matches)[2] - 1) * Scale) \div 100))
        ELSE None

\* ExtractProbability returning the percentage without clamping it
ExtractProbability_unclamped(response) ==
    LET matches == FindAllDecimal(response, 1)
        pct_matches == FindAllPercent(response, 1)
    IN  IF matches # << >>
        THEN Some(Clamp(FloatOf(response, LastOf(matches)[1], LastOf(matches)[2])))
        ELSE IF pct_matches # << >>
        THEN Some((IntOf(response, LastOf(pct_matches)[1],
                         LastOf(pct_matches)[2] - 1) * Scale) \div 100)
        ELSE None

\* forecaster.py 66-81: the probability extracted from a response text
ExtractProbability(response) ==
    LET matches == FindAllDecimal(response, 1)
        pct_matches == FindAllPercent(response, 1)
    IN  IF matches # << >>
        THEN Some(Clamp(FloatOf(response, LastOf(matches)[1], LastOf(matches)[2])))
        ELSE IF pct_matches # << >>
        THEN Some(Clamp((IntOf(response, LastOf(pct_matches)[1],
                               LastOf(pct_matches)[2] - 1) * Scale) \div 100))
        ELSE None

\* the conditions of the forecasting service a call can meet
ForecasterCases(L) ==
    { [token |-> FALSE, raises |-> FALSE, text |-> << >>],
      [token |-> TRUE, raises |-> TRUE, text |-> << >>] }
    \cup { [token |-> TRUE, raises |-> FALSE, text |-> t] : t \in Texts(L) }

\* get_calibrated_probability falling back to 0.5 without a token
get_calibrated_probability_default(f) ==
    IF ~f.token THEN Some(Scale \div 2)
    ELSE IF f.raises THEN None
    ELSE ExtractProbability(f.text)

\* forecaster.py 29-85
get_calibrated_probability(f) ==
    IF ~f.token THEN None
    ELSE IF f.raises THEN None
    ELSE ExtractProbability(f.text)

\* ----------------------------------------- reasoning-service responses
\* A response is a sequence of tokens: the code-fence marker ```, the word
\* json, a run of whitespace, or a JSON document.
Fence == [t |-> "fence"]
JsonWord == [t |-> "json"]
Ws == [t |-> "ws"]
Body(d) == [t |-> "body", doc |-> d]

\* A JSON document with the marker ``` inside one of its strings is three
\* tokens: its text before the marker, the marker, its text after it.
BodyHead(d) == [t |-> "head", doc |-> d]
BodyTail(d) == [t |-> "tail", doc |-> d]

\* confidence values the reasoning service may write: -0.5, 0.0, 0.7, 1.0, 1.5
ConfidenceValues ==
    { 0 - (Scale \div 2), 0, (7 * Scale) \div 10, Scale, (3 * Scale) \div 2 }

\* The JSON documents: text that is not JSON, an array, and objects.  An
\* object may lack "confidence", may carry a "calibrated_confidence" key of
\* its own (0.9), and has well-typed reasoning / risks / next_steps or not.
\* The shape of a document is what the handlers of wander, plan and
\* discover_context look at: the array is [1], and the objects have keys, none
\* of them questions, context_completeness or summary.
JsonDocs ==
    { [kind |-> "malformed", confidence |-> None, calibrated_confidence |-> None,
       fields_ok |-> FALSE, shape |-> "none"],
      [kind |-> "array", confidence |-> None, calibrated_confidence |-> None,
       fields_ok |-> FALSE, shape |-> "scalar_items"] }
    \cup { [kind |-> "object", confidence |-> c, calibrated_confidence |-> cc,
            fields_ok |-> ok, shape |-> "other_keys"] :
             c \in {None} \cup { Some(v) : v \in ConfidenceValues },
             cc \in {None, Some((9 * Scale) \div 10)},
             ok \in BOOLEAN }

ResponsePrefixes == { << >>, <<Ws>>, <<Fence>>, <<Fence, JsonWord>>,
                      <<Fence, JsonWord, Ws>> }
ResponseSuffixes == { << >>, <<Ws>>, <<Fence>>, <<Ws, Fence>> }

ClaudeCases ==
    { [raises |-> TRUE, text |-> << >>] }
    \cup { [raises |-> FALSE, text |-> pre \o <<Body(d)>> \o post] :
             pre \in ResponsePrefixes, d \in JsonDocs, post \in ResponseSuffixes }

\* str.strip()
RECURSIVE LStrip(_)
LStrip(text) ==
    IF text # << >> /\ Head(text).t = "ws" THEN LStrip(Tail(text)) ELSE text

RECURSIVE RStrip(_)
RStrip(text) ==
    IF text # << >> /\ text[Len(text)].t = "ws"
    THEN RStrip(SubSeq(text, 1, Len(text) - 1)) ELSE text

Strip(text) == RStrip(LStrip(text))

\* the positions of the ``` markers of text
FencePositions(text) == { i \in 1..Len(text) : text[i].t = "fence" }

\* text.split("```")[1], for a text that holds at least one marker
SplitSecond(text) ==
    LET first == CHOOSE i \in FencePositions(text) :
                     \A j \in FencePositions(text) : i <= j
        later == { i \in FencePositions(text) : i > first }
        stop == IF later = {} THEN Len(text) + 1
                ELSE CHOOSE i \in later : \A j \in later : i <= j
    IN  SubSeq(text, first + 1, stop - 1)

\* intelligence.py 143-150: strip, and unwrap a markdown code block
StripFences(raw) ==
    LET text == Strip(raw)
    IN  IF text # << >> /\ Head(text).t = "fence"
        THEN LET inner == SplitSecond(text)
                 body == IF inner # << >> /\ Head(inner).t = "json"
                         THEN Tail(inner) ELSE inner
             IN  Strip(body)
        ELSE text

NoDoc == [kind |-> "malformed", confidence |-> None,
          calibrated_confidence |-> None, fields_ok |-> FALSE, shape |-> "none"]

\* json.loads: the document, when the text is one well-formed JSON document
\* with optional whitespace around it; otherwise JSONDecodeError
JsonLoads(text) ==
    LET t == Strip(text)
    IN  IF Len(t) = 1 /\ t[1].t = "body" /\ t[1].doc.kind # "malformed"
        THEN [ok |-> TRUE, value |-> t[1].doc]
        ELSE IF /\ Len(t) = 3
                /\ t[1].t = "head" /\ t[2].t = "fence" /\ t[3].t = "tail"
                /\ t[1].doc = t[3].doc /\ t[1].doc.kind # "malformed"
        THEN [ok |-> TRUE, value |-> t[1].doc]
        ELSE [ok |-> FALSE, value |-> NoDoc]

\* the parse of a reply that falls back to an empty list
ParseJsonReply_default(c) ==
    LET parsed == JsonLoads(StripFences(c.text))
    IN  IF c.raises
        THEN [status |-> "UpstreamFailure", value |-> NoDoc, calls |-> 1]
        ELSE IF ~parsed.ok
        THEN [status |-> "ok",
              value |-> [kind |-> "array", confidence |-> None,
                         calibrated_confidence |-> None, fields_ok |-> FALSE,
                         shape |-> "empty"],
              calls |-> 1]
        ELSE [status |-> "ok", value |-> parsed.value, calls |-> 1]

\* intelligence.py 61-78, 217-234, 304-321, 355-372: one call of the
\* reasoning service, its reply stripped of its fences and parsed
ParseJsonReply(c) ==
    LET parsed == JsonLoads(StripFences(c.text))
    IN  IF c.raises
        THEN [status |-> "UpstreamFailure", value |-> NoDoc, calls |-> 1]
        ELSE IF ~parsed.ok
        THEN [status |-> "ParseError", value |-> NoDoc, calls |-> 1]
        ELSE [status |-> "ok", value |-> parsed.value, calls |-> 1]

\* intelligence.py 28-78
intelligence_wander(c) == ParseJsonReply(c)

\* intelligence.py 160-234
intelligence_discover_context(c) == ParseJsonReply(c)

\* intelligence.py 237-321
integrate_answers(c) == ParseJsonReply(c)

\* intelligence.py 324-372
intelligence_plan(c) == ParseJsonReply(c)

NoResult == [confidence |-> None, calibrated_confidence |-> None, fields_ok |-> FALSE]

\* AttachCalibrated keeping a calibrated_confidence key the result already has
AttachCalibrated_keep(result, calibrated_prob) ==
    [confidence |-> result.confidence,
     calibrated_confidence |-> IF result.calibrated_confidence # None
                               THEN result.calibrated_confidence
                               ELSE calibrated_prob,
     fields_ok |-> result.fields_ok]

\* intelligence.py 152-155: result["calibrated_confidence"] = calibrated_prob
AttachCalibrated(result, calibrated_prob) ==
    [confidence |-> result.confidence,
     calibrated_confidence |-> calibrated_prob,
     fields_ok |-> result.fields_ok]

\* intelligence.py 81-157
intelligence_validate(f, c) ==
    LET calibrated_prob == get_calibrated_probability(f)
        parsed == JsonLoads(StripFences(c.text))
    IN  IF c.raises THEN [status |-> "UpstreamFailure", result |-> NoResult]
        ELSE IF ~parsed.ok THEN [status |-> "ParseError", result |-> NoResult]
        ELSE IF parsed.value.kind # "object"
        THEN [status |-> "TypeError", result |-> NoResult]
        ELSE [status |-> "ok",
              result |-> AttachCalibrated(parsed.value, calibrated_prob)]

\* main.py 240-248: ValidateResponse(**result) needs a confidence and
\* well-typed reasoning / risks / next_steps, and puts no range on the numbers
validate(f, c) ==
    LET r == intelligence_validate(f, c)
    IN  IF r.status # "ok" THEN r
        ELSE IF r.result.confidence = None \/ ~r.result.fields_ok
        THEN [status |-> "ValidationError", result |-> NoResult]
        ELSE r

\* --------------------------------------------------------- idle values
NoForecaster == [token |-> FALSE, raises |-> FALSE, text |-> << >>]
NoClaude == [raises |-> TRUE, text |-> << >>]
NoOutcome == [status |-> "none", result |-> NoResult]
NoRows == [ideas |-> {}, connections |-> {}]
NoOp == [op |-> "none", args |-> << >>, outcome |-> "none", deleted |-> NoRows]
NoResponse == [status |-> "none", value |-> NoDoc, calls |-> 0]

IntelligenceIdle ==
    /\ forecaster = NoForecaster
    /\ claude = NoClaude
    /\ forecast_out = None
    /\ validate_out = NoOutcome
    /\ intelligence_out = NoResponse

StoreEmpty ==
    /\ foreign_keys = FALSE
    /\ projects = {}
    /\ ideas = {}
    /\ connections = {}
    /\ issued = [projects |-> 0, ideas |-> 0, connections |-> 0]
    /\ lastOp = NoOp

storeVars == << foreign_keys, projects, ideas, connections, issued, lastOp >>

\* ------------------------- specification of get_calibrated_probability
InitForecast ==
    /\ pc = "forecast_called"
    /\ forecaster \in ForecasterCases(MaxLen)
    /\ claude = NoClaude
    /\ forecast_out = None
    /\ validate_out = NoOutcome
    /\ intelligence_out = NoResponse
    /\ StoreEmpty

GetCalibratedProbability ==
    /\ pc = "forecast_called"
    /\ forecast_out' = get_calibrated_probability(forecaster)
    /\ pc' = "forecast_done"
    /\ UNCHANGED << forecaster, claude, validate_out, intelligence_out >>
    /\ UNCHANGED storeVars

NextForecast == GetCalibratedProbability

SpecForecast == InitForecast /\ [][NextForecast]_vars

\* ------------------------------------------- specification of validate
InitValidate ==
    /\ pc = "validate_called"
    /\ forecaster \in ForecasterCases(MaxFcLen)
    /\ claude \in ClaudeCases
    /\ forecast_out = None
    /\ validate_out = NoOutcome
    /\ intelligence_out = NoResponse
    /\ StoreEmpty

Validate ==
    /\ pc = "validate_called"
    /\ forecast_out' = get_calibrated_probability(forecaster)
    /\ validate_out' = validate(forecaster, claude)
    /\ pc' = "validate_done"
    /\ UNCHANGED << forecaster, claude, intelligence_out >>
    /\ UNCHANGED storeVars

NextValidate == Validate

SpecValidate == InitValidate /\ [][NextValidate]_vars

\* ------------------------------- specification of the reasoning functions
\* the replies the reasoning service may give: those of ClaudeCases, and
\* those whose JSON document holds the marker ``` inside a string
ReasoningCases ==
    ClaudeCases
    \cup { [raises |-> FALSE,
            text |-> pre \o <<BodyHead(d), Fence, BodyTail(d)>> \o post] :
             pre \in ResponsePrefixes,
             d \in { x \in JsonDocs : x.kind # "malformed" },
             post \in ResponseSuffixes }

IntelligenceFunctions ==
    {"wander", "plan", "discover_context", "integrate_answers", "validate"}

InitIntelligence ==
    /\ pc \in { fn \o "_called" : fn \in IntelligenceFunctions }
    /\ forecaster \in ForecasterCases(0)
    /\ claude \in ReasoningCases
    /\ forecast_out = None
    /\ validate_out = NoOutcome
    /\ intelligence_out = NoResponse
    /\ StoreEmpty

Wander ==
    /\ pc = "wander_called"
    /\ intelligence_out' = intelligence_wander(claude)
    /\ pc' = "wander_done"
    /\ UNCHANGED << forecaster, claude, forecast_out, validate_out >>
    /\ UNCHANGED storeVars

Plan ==
    /\ pc = "plan_called"
    /\ intelligence_out' = intelligence_plan(claude)
    /\ pc' = "plan_done"
    /\ UNCHANGED << forecaster, claude, forecast_out, validate_out >>
    /\ UNCHANGED storeVars

DiscoverContext ==
    /\ pc = "discover_context_called"
    /\ intelligence_out' = intelligence_discover_context(claude)
    /\ pc' = "discover_context_done"
    /\ UNCHANGED << forecaster, claude, forecast_out, validate_out >>
    /\ UNCHANGED storeVars

IntegrateAnswers ==
    /\ pc = "integrate_answers_called"
    /\ intelligence_out' = integrate_answers(claude)
    /\ pc' = "integrate_answers_done"
    /\ UNCHANGED << forecaster, claude, forecast_out, validate_out >>
    /\ UNCHANGED storeVars

NextIntelligence ==
    Wander \/ Plan \/ DiscoverContext \/ IntegrateAnswers \/ Validate

SpecIntelligence == InitIntelligence /\ [][NextIntelligence]_vars

\* ------------------------------------------------------------ the store
\* Identifiers are uuid4 strings, never issued twice: the k-th row of a table
\* gets the identifier k, and 0 is an identifier that was never issued.
NeverIssued == 0

IdeaIds == { i.id : i \in ideas }
ConnectionIds == { c.id : c \in connections }

\* identifiers a caller can name: one never issued, or any issued so far
ProjectIdInputs == 0..issued.projects
IdeaIdInputs == 0..issued.ideas
ConnectionIdInputs == 0..issued.connections
ParentIdInputs == {None} \cup { Some(i) : i \in IdeaIdInputs }

\* models.py 40: the stages an idea crystallizes through
Lifecycle == {"resonance", "idea", "hypothesis", "task"}

\* schemas.py 40 and 49: status is any str; "archived" stands for the strings
\* that are no stage
StatusStrings == Lifecycle \cup {"archived"}

\* schemas.py 36-43: an IdeaCreate that leaves status to its default
IdeaInputs ==
    [project_id : ProjectIdInputs, parent_id : ParentIdInputs, status : {"resonance"}]
BatchInputs == UNION { [1..n -> IdeaInputs] : n \in 0..MaxBatch }

\* schemas.py 36-43: an IdeaCreate with a status and without parent
StatusIdeaInputs ==
    [project_id : ProjectIdInputs, parent_id : {None}, status : StatusStrings]
StatusBatchInputs == UNION { [1..n -> StatusIdeaInputs] : n \in 0..MaxBatch }

\* schemas.py 46-54: an IdeaUpdate; a field is << >> when the request does
\* not have it and << v >> when it sets it to v, which may be None (null)
NoUpdate == [status |-> << >>]
StatusUpdates ==
    [status : { << >> } \cup { << v >> : v \in {None} \cup { Some(st) : st \in StatusStrings } }]

Done(op, args, outcome) ==
    [op |-> op, args |-> args, outcome |-> outcome, deleted |-> NoRows]

\* the store is left as it is
StoreUntouched == UNCHANGED << foreign_keys, projects, ideas, connections, issued >>

\* models.py 44 and 51: deleting an idea sets parent_id of its children,
\* the rows of backref "children", to NULL
Orphaned(rows, gone) ==
    { IF i.parent_id # None /\ i.parent_id[1] \in gone
      THEN [i EXCEPT !.parent_id = None] ELSE i : i \in rows }

\* DeleteIdeas cascading to the outgoing connections only
DeleteIdeas_outgoing(gone, op, args) ==
    LET goneIdeas == { i \in ideas : i.id \in gone }
        goneConns == { c \in connections : c.source_id \in gone }
    IN  /\ ideas' = Orphaned(ideas \ goneIdeas, gone)
        /\ connections' = connections \ goneConns
        /\ lastOp' = [op |-> op, args |-> args, outcome |-> "ok",
                      deleted |-> [ideas |-> goneIdeas, connections |-> goneConns]]

\* models.py 25, 53-67: session.delete of the ideas with ids in gone, with
\* the cascade to their outgoing and incoming connections
DeleteIdeas(gone, op, args) ==
    LET goneIdeas == { i \in ideas : i.id \in gone }
        goneConns == { c \in connections :
                         c.source_id \in gone \/ c.target_id \in gone }
    IN  /\ ideas' = Orphaned(ideas \ goneIdeas, gone)
        /\ connections' = connections \ goneConns
        /\ lastOp' = [op |-> op, args |-> args, outcome |-> "ok",
                      deleted |-> [ideas |-> goneIdeas, connections |-> goneConns]]

\* database.py is not part of the sources: its engine may enforce FOREIGN KEY
\* constraints (PostgreSQL, SQLite with PRAGMA foreign_keys=ON) or not (SQLite
\* as it comes)
ForeignKeyModes == BOOLEAN

\* the FOREIGN KEY constraints of table ideas hold for the new row
IdeaForeignKeysHold(idea) ==
    /\ idea.project_id \in projects
    /\ idea.parent_id # None => idea.parent_id[1] \in IdeaIds

\* main.py 64-70
create_project ==
    /\ pc = "store"
    /\ issued.projects < MaxProjects
    /\ projects' = projects \cup {issued.projects + 1}
    /\ issued' = [issued EXCEPT !.projects = @ + 1]
    /\ lastOp' = Done("create_project", << >>, "ok")
    /\ UNCHANGED << foreign_keys, ideas, connections >>

\* delete_project deleting the project row and leaving its ideas behind
delete_project_no_cascade(project_id) ==
    /\ pc = "store"
    /\ IF project_id \notin projects
       THEN /\ lastOp' = Done("delete_project", <<project_id>>, "NotFound")
            /\ StoreUntouched
       ELSE /\ projects' = projects \ {project_id}
            /\ lastOp' = Done("delete_project", <<project_id>>, "ok")
            /\ UNCHANGED << foreign_keys, ideas, connections, issued >>

\* main.py 102-110
delete_project(project_id) ==
    /\ pc = "store"
    /\ IF project_id \notin projects
       THEN /\ lastOp' = Done("delete_project", <<project_id>>, "NotFound")
            /\ StoreUntouched
       ELSE /\ projects' = projects \ {project_id}
            /\ DeleteIdeas({ i.id : i \in { j \in ideas : j.project_id = project_id } },
                           "delete_project", <<project_id>>)
            /\ UNCHANGED << foreign_keys, issued >>

\* main.py 115-134
create_idea(idea) ==
    /\ pc = "store"
    /\ IF idea.project_id \notin projects
       THEN /\ lastOp' = Done("create_idea", <<idea.project_id>>, "NotFound")
            /\ StoreUntouched
       ELSE IF foreign_keys /\ ~IdeaForeignKeysHold(idea)
       THEN /\ lastOp' = Done("create_idea", <<idea.project_id>>, "IntegrityError")
            /\ StoreUntouched
       ELSE /\ issued.ideas < MaxIdeas
            /\ ideas' = ideas \cup { [id |-> issued.ideas + 1,
                                      project_id |-> idea.project_id,
                                      parent_id |-> idea.parent_id,
                                      status |-> Some(idea.status)] }
            /\ issued' = [issued EXCEPT !.ideas = @ + 1]
            /\ lastOp' = Done("create_idea", <<idea.project_id>>, "ok")
            /\ UNCHANGED << foreign_keys, projects, connections >>

\* main.py 150-161: every field of the request is set on the row;
\* IdeaUpdate has neither project_id nor parent_id
update_idea(idea_id, update) ==
    /\ pc = "store"
    /\ IF idea_id \notin IdeaIds
       THEN /\ lastOp' = Done("update_idea", << >>, "NotFound")
            /\ StoreUntouched
       ELSE /\ ideas' = { IF i.id = idea_id /\ update.status # << >>
                          THEN [i EXCEPT !.status = update.status[1]]
                          ELSE i : i \in ideas }
            /\ lastOp' = Done("update_idea", << >>, "ok")
            /\ UNCHANGED << foreign_keys, projects, connections, issued >>

\* main.py 164-172
delete_idea(idea_id) ==
    /\ pc = "store"
    /\ IF idea_id \notin IdeaIds
       THEN /\ lastOp' = Done("delete_idea", <<idea_id>>, "NotFound")
            /\ StoreUntouched
       ELSE /\ DeleteIdeas({idea_id}, "delete_idea", <<idea_id>>)
            /\ UNCHANGED << foreign_keys, projects, issued >>

\* create_connection looking up the source only
create_connection_source_only(source_id, target_id) ==
    /\ pc = "store"
    /\ IF source_id \notin IdeaIds
       THEN /\ lastOp' = Done("create_connection", <<source_id, target_id>>, "NotFound")
            /\ StoreUntouched
       ELSE /\ issued.connections < MaxConnections
            /\ connections' = connections \cup { [id |-> issued.connections + 1,
                                                  source_id |-> source_id,
                                                  target_id |-> target_id] }
            /\ issued' = [issued EXCEPT !.connections = @ + 1]
            /\ lastOp' = Done("create_connection", <<source_id, target_id>>, "ok")
            /\ UNCHANGED << foreign_keys, projects, ideas >>

\* main.py 177-194
create_connection(source_id, target_id) ==
    /\ pc = "store"
    /\ IF source_id \notin IdeaIds \/ target_id \notin IdeaIds
       THEN /\ lastOp' = Done("create_connection", <<source_id, target_id>>, "NotFound")
            /\ StoreUntouched
       ELSE /\ issued.connections < MaxConnections
            /\ connections' = connections \cup { [id |-> issued.connections + 1,
                                                  source_id |-> source_id,
                                                  target_id |-> target_id] }
            /\ issued' = [issued EXCEPT !.connections = @ + 1]
            /\ lastOp' = Done("create_connection", <<source_id, target_id>>, "ok")
            /\ UNCHANGED << foreign_keys, projects, ideas >>

\* list_connections requiring both endpoints in the project
list_connections_both(project_id) ==
    LET idea_ids == { i.id : i \in { j \in ideas : j.project_id = project_id } }
    IN  { c \in connections : c.source_id \in idea_ids /\ c.target_id \in idea_ids }

\* main.py 197-203: a read, it changes no row
list_connections(project_id) ==
    LET idea_ids == { i.id : i \in { j \in ideas : j.project_id = project_id } }
    IN  { c \in connections : c.source_id \in idea_ids \/ c.target_id \in idea_ids }

\* main.py 206-214
delete_connection(connection_id) ==
    /\ pc = "store"
    /\ IF connection_id \notin ConnectionIds
       THEN /\ lastOp' = Done("delete_connection", << >>, "NotFound")
            /\ StoreUntouched
       ELSE /\ connections' = { c \in connections : c.id # connection_id }
            /\ lastOp' = [op |-> "delete_connection", args |-> << >>,
                          outcome |-> "ok",
                          deleted |-> [ideas |-> {},
                                       connections |-> { c \in connections :
                                                           c.id = connection_id }]]
            /\ UNCHANGED << foreign_keys, projects, ideas, issued >>

\* the projects the ideas of a batch name
BatchProjects(batch) == { batch[k].project_id : k \in 1..Len(batch) }

\* main.py 339-360: no lookup of the projects; the rows go to the database
\* in one commit, which fails as a whole on a violated constraint
create_ideas_batch(batch) ==
    /\ pc = "store"
    /\ IF foreign_keys /\ \E k \in 1..Len(batch) : ~IdeaForeignKeysHold(batch[k])
       THEN /\ lastOp' = Done("create_ideas_batch", <<BatchProjects(batch)>>, "IntegrityError")
            /\ StoreUntouched
       ELSE /\ issued.ideas + Len(batch) <= MaxIdeas
            /\ ideas' = ideas \cup { [id |-> issued.ideas + k,
                                      project_id |-> batch[k].project_id,
                                      parent_id |-> batch[k].parent_id,
                                      status |-> Some(batch[k].status)] :
                                        k \in 1..Len(batch) }
            /\ issued' = [issued EXCEPT !.ideas = @ + Len(batch)]
            /\ lastOp' = Done("create_ideas_batch", <<BatchProjects(batch)>>, "ok")
            /\ UNCHANGED << foreign_keys, projects, connections >>

intelligenceVars ==
    << pc, forecaster, claude, forecast_out, validate_out, intelligence_out >>

Init ==
    /\ pc = "store"
    /\ IntelligenceIdle
    /\ foreign_keys \in ForeignKeyModes
    /\ projects = {}
    /\ ideas = {}
    /\ connections = {}
    /\ issued = [projects |-> 0, ideas |-> 0, connections |-> 0]
    /\ lastOp = NoOp

Next ==
    \/ create_project /\ UNCHANGED intelligenceVars
    \/ \E project_id \in ProjectIdInputs :
           delete_project(project_id) /\ UNCHANGED intelligenceVars
    \/ \E idea \in IdeaInputs : create_idea(idea) /\ UNCHANGED intelligenceVars
    \/ \E idea_id \in IdeaIdInputs :
           update_idea(idea_id, NoUpdate) /\ UNCHANGED intelligenceVars
    \/ \E idea_id \in IdeaIdInputs : delete_idea(idea_id) /\ UNCHANGED intelligenceVars
    \/ \E source_id \in IdeaIdInputs, target_id \in IdeaIdInputs :
           create_connection(source_id, target_id) /\ UNCHANGED intelligenceVars
    \/ \E connection_id \in ConnectionIdInputs :
           delete_connection(connection_id) /\ UNCHANGED intelligenceVars
    \/ \E batch \in BatchInputs : create_ideas_batch(batch) /\ UNCHANGED intelligenceVars

Spec == Init /\ [][Next]_vars

\* ------------------------- specification of the status of the ideas
\* the handlers that write an idea's status, called with every status
NextStatus ==
    \/ create_project /\ UNCHANGED intelligenceVars
    \/ \E idea \in StatusIdeaInputs : create_idea(idea) /\ UNCHANGED intelligenceVars
    \/ \E batch \in StatusBatchInputs :
           create_ideas_batch(batch) /\ UNCHANGED intelligenceVars
    \/ \E idea_id \in IdeaIdInputs, update \in StatusUpdates :
           update_idea(idea_id, update) /\ UNCHANGED intelligenceVars
    \/ \E idea_id \in IdeaIdInputs : delete_idea(idea_id) /\ UNCHANGED intelligenceVars

SpecStatus == Init /\ [][NextStatus]_vars

\* ------------------------------- the handlers of strategic intelligence
\* models.py 20-25: the attributes of a Project
ProjectColumns == {"id", "name", "goal", "created_at", "ideas"}

\* the outcome of a handler that made no call of the reasoning service
Failed(status) == [status |-> status, value |-> NoDoc, calls |-> 0]

\* main.py 237 and 261: [WanderIdea(**idea) for idea in ideas], the same with
\* PlanAction.  The empty array and the empty object build the empty list;
\* an item that is no object and a key of an object are no mapping for **
\* (TypeError); an item without the fields of the schema fails its validation.
ListResponse(r) ==
    IF r.status # "ok" THEN r
    ELSE IF \/ r.value.kind = "array" /\ r.value.shape \in {"empty", "ok"}
            \/ r.value.kind = "object" /\ r.value.shape = "empty"
    THEN r
    ELSE IF r.value.kind = "array" /\ r.value.shape = "bad_items"
    THEN [status |-> "ValidationError", value |-> NoDoc, calls |-> r.calls]
    ELSE [status |-> "TypeError", value |-> NoDoc, calls |-> r.calls]

\* main.py 288-292: [ContextQuestion(**q) for q in result["questions"]],
\* result["context_completeness"], result["summary"], and the validation of
\* DiscoverContextResponse.  An array has no string index (TypeError).
ObjectResponse(r) ==
    IF r.status # "ok" THEN r
    ELSE IF r.value.kind # "object"
    THEN [status |-> "TypeError", value |-> NoDoc, calls |-> r.calls]
    ELSE IF r.value.shape \in {"empty", "other_keys"}
    THEN [status |-> "KeyError", value |-> NoDoc, calls |-> r.calls]
    ELSE IF r.value.shape = "scalar_items"
    THEN [status |-> "TypeError", value |-> NoDoc, calls |-> r.calls]
    ELSE IF r.value.shape \in {"bad_items", "bad_completeness"}
    THEN [status |-> "ValidationError", value |-> NoDoc, calls |-> r.calls]
    ELSE r

\* main.py 323 and 330-334: completeness_check["context_completeness"] and
\* completeness_check["summary"], read as they are
KeysResponse(r) ==
    IF r.status # "ok" THEN r
    ELSE IF r.value.kind # "object"
    THEN [status |-> "TypeError", value |-> NoDoc, calls |-> r.calls]
    ELSE IF r.value.shape \in {"empty", "other_keys"}
    THEN [status |-> "KeyError", value |-> NoDoc, calls |-> r.calls]
    ELSE r

\* a handler ends: its outcome is recorded, and no row has changed
Answer(op, project_id, r) ==
    /\ intelligence_out' = r
    /\ lastOp' = Done(op, <<project_id>>, r.status)
    /\ StoreUntouched

\* main.py 219-237: project.context is read at line 230
wander(project_id) ==
    /\ pc = "store"
    /\ Answer("wander", project_id,
              IF project_id \notin projects THEN Failed("NotFound")
              ELSE IF "context" \notin ProjectColumns THEN Failed("AttributeError")
              ELSE ListResponse(intelligence_wander(claude)))

\* plan calling the reasoning service before it looks the project up
plan_call_first(project_id) ==
    /\ pc = "store"
    /\ Answer("plan", project_id,
              LET r == ListResponse(intelligence_plan(claude))
              IN  IF project_id \notin projects
                  THEN [status |-> "NotFound", value |-> NoDoc, calls |-> r.calls]
                  ELSE r)

\* main.py 251-261
plan(project_id) ==
    /\ pc = "store"
    /\ Answer("plan", project_id,
              IF project_id \notin projects THEN Failed("NotFound")
              ELSE ListResponse(intelligence_plan(claude)))

\* main.py 266-292: project.context is read at line 280
discover_context(project_id) ==
    /\ pc = "store"
    /\ Answer("discover_context", project_id,
              IF project_id \notin projects THEN Failed("NotFound")
              ELSE IF "context" \notin ProjectColumns THEN Failed("AttributeError")
              ELSE ObjectResponse(intelligence_discover_context(claude)))

\* main.py 295-334: project.context is read at line 309; past it the handler
\* calls integrate_answers, then discover_context, and commits
answer_context(project_id) ==
    /\ pc = "store"
    /\ Answer("answer_context", project_id,
              IF project_id \notin projects THEN Failed("NotFound")
              ELSE IF "context" \notin ProjectColumns THEN Failed("AttributeError")
              ELSE LET new_context == integrate_answers(claude)
                       completeness_check ==
                           KeysResponse(intelligence_discover_context(claude))
                   IN  IF new_context.status # "ok" THEN new_context
                       ELSE IF completeness_check.status # "ok"
                       THEN [completeness_check EXCEPT !.calls = 2]
                       ELSE [new_context EXCEPT !.calls = 2])

\* the replies a handler may get: no JSON, a JSON array, a JSON object.
\* An array is [] (empty), [1] (scalar_items), [{}] (bad_items: objects
\* without the fields of WanderIdea / PlanAction) or holds objects with the
\* fields (ok).  An object is {} (empty), {"a": 1} (other_keys), or has
\* questions, context_completeness and summary: questions "x"
\* (scalar_items), questions [{}] (bad_items), context_completeness "high"
\* (bad_completeness), all as DiscoverContextResponse wants them (ok).
ArrayShapes == {"empty", "scalar_items", "bad_items", "ok"}
ObjectShapes ==
    {"empty", "other_keys", "scalar_items", "bad_items", "bad_completeness", "ok"}

ApiDocs ==
    { NoDoc }
    \cup { [kind |-> "array", confidence |-> None, calibrated_confidence |-> None,
            fields_ok |-> sh = "ok", shape |-> sh] : sh \in ArrayShapes }
    \cup { [kind |-> "object", confidence |-> None, calibrated_confidence |-> None,
            fields_ok |-> sh = "ok", shape |-> sh] : sh \in ObjectShapes }

ApiCases ==
    { [raises |-> TRUE, text |-> << >>] }
    \cup { [raises |-> FALSE, text |-> pre \o <<Body(d)>> \o post] :
             pre \in ResponsePrefixes, d \in ApiDocs, post \in ResponseSuffixes }

ProjectHandlers == {"wander", "plan", "discover_context", "answer_context"}

serviceVars == << pc, forecaster, claude, forecast_out, validate_out >>

InitApi ==
    /\ pc = "store"
    /\ forecaster = NoForecaster
    /\ claude \in ApiCases
    /\ forecast_out = None
    /\ validate_out = NoOutcome
    /\ intelligence_out = NoResponse
    /\ StoreEmpty

NextApi ==
    \/ create_project /\ UNCHANGED intelligenceVars
    \/ \E project_id \in ProjectIdInputs :
           delete_project(project_id) /\ UNCHANGED intelligenceVars
    \/ \E project_id \in ProjectIdInputs :
           wander(project_id) /\ UNCHANGED serviceVars
    \/ \E project_id \in ProjectIdInputs :
           plan(project_id) /\ UNCHANGED serviceVars
    \/ \E project_id \in ProjectIdInputs :
           discover_context(project_id) /\ UNCHANGED serviceVars
    \/ \E project_id \in ProjectIdInputs :
           answer_context(project_id) /\ UNCHANGED serviceVars

SpecApi == InitApi /\ [][NextApi]_vars

\* ------------------------------------------------- the store's claims
\* C6: every idea's project_id names an existing project, and creating
\* ideas, one by one or as a batch, for a project that does not exist ends
\* in NotFound.
C6_IdeasBelongToProjects ==
    /\ \A i \in ideas : i.project_id \in projects
    /\ (lastOp.op = "create_idea" /\ lastOp.args[1] \notin projects) =>
           lastOp.outcome = "NotFound"
    /\ (lastOp.op = "create_ideas_batch" /\ ~(lastOp.args[1] \subseteq projects)) =>
           lastOp.outcome = "NotFound"

\* C7: create_connection naming a source or a target that is no existing
\* idea ends in NotFound and changes no row of the store.
C7_ConnectionNeedsBothIdeas ==
    [][ (/\ lastOp'.op = "create_connection"
         /\ \/ lastOp'.args[1] \notin IdeaIds
            \/ lastOp'.args[2] \notin IdeaIds)
        => /\ lastOp'.outcome = "NotFound"
           /\ connections' = connections
           /\ ideas' = ideas
           /\ projects' = projects
           /\ issued' = issued ]_vars

\* the source exists, the target does not, and a connection is stored
C7_Witness ==
    /\ lastOp.op = "create_connection"
    /\ lastOp.outcome = "NotFound"
    /\ lastOp.args[1] \in IdeaIds
    /\ lastOp.args[2] \notin IdeaIds
    /\ connections # {}
    /\ \A i \in ideas : i.project_id \in projects

\* C8: a successful delete_project(P) removes exactly the ideas of P, and
\* every connection that had one of them as source or target; the ideas of
\* other projects stay.
C8_DeleteProjectCascades ==
    [][ \A p \in projects :
          (lastOp'.op = "delete_project" /\ lastOp'.args = <<p>>
             /\ lastOp'.outcome = "ok")
          => LET owned == { i.id : i \in { j \in ideas : j.project_id = p } }
             IN  /\ p \notin projects'
                 /\ \A i \in ideas' : i.project_id # p
                 /\ { i.id : i \in ideas' } = IdeaIds \ owned
                 /\ \A i \in ideas' : \E j \in ideas :
                        j.id = i.id /\ j.project_id = i.project_id
                 /\ connections' = { c \in connections :
                                       c.source_id \notin owned
                                       /\ c.target_id \notin owned } ]_vars

\* a project was deleted with an idea and with a connection to the idea of
\* another project, which is still there
C8_Witness ==
    /\ lastOp.op = "delete_project" /\ lastOp.outcome = "ok"
    /\ lastOp.deleted.ideas # {}
    /\ \E c \in lastOp.deleted.connections :
           /\ c.target_id \in IdeaIds
           /\ c.source_id \in { i.id : i \in lastOp.deleted.ideas }
    /\ \A i \in ideas : i.project_id \in projects
    /\ \A c \in connections : c.source_id \in IdeaIds /\ c.target_id \in IdeaIds

\* C9: the source and the target of every connection are existing ideas, and
\* a successful delete_idea removes that idea and the connections it is the
\* source or the target of, and no other row.
C9_ConnectionsJoinIdeas ==
    /\ [](\A c \in connections : c.source_id \in IdeaIds /\ c.target_id \in IdeaIds)
    /\ [][ \A x \in IdeaIds :
             (lastOp'.op = "delete_idea" /\ lastOp'.args = <<x>>
                /\ lastOp'.outcome = "ok")
             => /\ { i.id : i \in ideas' } = IdeaIds \ {x}
                /\ connections' = { c \in connections :
                                      c.source_id # x /\ c.target_id # x }
                /\ projects' = projects ]_vars

\* an idea was deleted with a connection it was the target of, and another
\* idea is still there
C9_Witness ==
    /\ lastOp.op = "delete_idea" /\ lastOp.outcome = "ok"
    /\ \E c \in lastOp.deleted.connections :
           /\ c.target_id = lastOp.args[1]
           /\ c.source_id # lastOp.args[1]
    /\ ideas # {}
    /\ \A i \in ideas : i.project_id \in projects

\* C10: an idea with a parent has it in its own project.
C10_ParentInSameProject ==
    \A i \in ideas :
        i.parent_id # None =>
            \E p \in ideas : p.id = i.parent_id[1] /\ p.project_id = i.project_id

\* the project that owns the idea x, as a set: empty when x is no idea
OwnerOf(x) == { i.project_id : i \in { j \in ideas : j.id = x } }

\* C11: list_connections(P) is the set of the stored connections with the
\* source or the target owned by P: a connection between projects is in the
\* listing of both, one with both ends elsewhere is in neither.
C11_ListConnectionsByEndpoint ==
    \A p \in ProjectIdInputs :
        /\ list_connections(p) \subseteq connections
        /\ \A c \in connections :
               c \in list_connections(p)
                   <=> (p \in OwnerOf(c.source_id) \/ p \in OwnerOf(c.target_id))

\* a connection from an idea of one project to an idea of another, listed
\* for both, and a connection inside the second project, listed for it only
C11_Witness ==
    \E p \in projects, q \in projects :
        /\ p # q
        /\ \E c \in connections :
               /\ OwnerOf(c.source_id) = {p} /\ OwnerOf(c.target_id) = {q}
               /\ c \in list_connections(p) /\ c \in list_connections(q)
        /\ \E c \in connections :
               /\ OwnerOf(c.source_id) = {q} /\ OwnerOf(c.target_id) = {q}
               /\ c \notin list_connections(p) /\ c \in list_connections(q)

\* C12: the status of every stored idea is one of resonance, idea,
\* hypothesis, task.
C12_StatusInLifecycle ==
    \A i \in ideas : i.status \in { Some(st) : st \in Lifecycle }

\* C13: when the reply of the reasoning service is not well-formed JSON after
\* fence stripping, wander, plan, validate and discover_context end in a
\* ParseError and return nothing; what they return on success is the
\* document of the reply.
C13_MalformedIsExplicitError ==
    LET parsed == JsonLoads(StripFences(claude.text))
        malformed == ~claude.raises /\ ~parsed.ok
    IN  /\ pc \in {"wander_done", "plan_done", "discover_context_done"} =>
            /\ malformed =>
                   /\ intelligence_out.status = "ParseError"
                   /\ intelligence_out.value = NoDoc
            /\ intelligence_out.status = "ok" =>
                   /\ ~claude.raises /\ parsed.ok
                   /\ intelligence_out.value = parsed.value
                   /\ intelligence_out.value.kind \in {"array", "object"}
        /\ pc = "validate_done" =>
            /\ malformed =>
                   validate_out = [status |-> "ParseError", result |-> NoResult]
            /\ validate_out.status = "ok" =>
                   /\ ~claude.raises /\ parsed.ok
                   /\ validate_out.result.confidence = parsed.value.confidence
                   /\ validate_out.result.confidence # None

C13_Witness ==
    /\ pc = "wander_done"
    /\ ~claude.raises
    /\ claude.text # << >> /\ Head(claude.text) = Fence
    /\ \E i \in 1..Len(claude.text) :
           claude.text[i].t = "body" /\ claude.text[i].doc.kind = "malformed"
    /\ intelligence_out.status = "ParseError"

\* C14: an answer-context request on a project that exists, when the
\* reasoning service answers with a well-formed object, succeeds with the
\* integrated context, and the project has a context and a completeness
\* that later reads can see.
C14_AnswerContextStores ==
    LET parsed == JsonLoads(StripFences(claude.text))
    IN  ( /\ lastOp.op = "answer_context"
          /\ lastOp.outcome # "NotFound"
          /\ ~claude.raises /\ parsed.ok
          /\ parsed.value.kind = "object" /\ parsed.value.shape = "ok" ) =>
            /\ lastOp.outcome = "ok"
            /\ intelligence_out.value = parsed.value
            /\ intelligence_out.calls = 2
            /\ {"context", "context_completeness"} \subseteq ProjectColumns

\* C17: wander, plan, discover-context and answer-context on a project that
\* does not exist end in NotFound, without a call of the reasoning service
\* and without change of a row; no other request ends in NotFound, and a
\* malformed reply for plan on a project that exists is a ParseError.
C17_NotFoundBeforeReasoning ==
    [][ lastOp'.op \in ProjectHandlers =>
            /\ (lastOp'.args[1] \notin projects) <=> (lastOp'.outcome = "NotFound")
            /\ lastOp'.args[1] \notin projects =>
                   /\ intelligence_out'.calls = 0
                   /\ intelligence_out'.value = NoDoc
                   /\ UNCHANGED << projects, ideas, connections, issued >>
            /\ ( /\ lastOp'.op = "plan"
                 /\ lastOp'.args[1] \in projects
                 /\ ~claude.raises
                 /\ ~JsonLoads(StripFences(claude.text)).ok ) =>
                   lastOp'.outcome = "ParseError" ]_vars

C17_Witness ==
    /\ lastOp.op = "plan"
    /\ lastOp.outcome = "NotFound"
    /\ lastOp.args[1] \notin projects
    /\ projects # {}
    /\ ~claude.raises /\ ~JsonLoads(StripFences(claude.text)).ok
    /\ intelligence_out.calls = 0

\* the text of the well-formed JSON document d: one token, or three when a
\* string of d holds the marker ```
BodyTexts(d) == { <<Body(d)>>, <<BodyHead(d), Fence, BodyTail(d)>> }

\* body as it is, or between a leading ``` or ```json and a trailing ```
BareOrWrapped(body) ==
    { body }
    \cup { pre \o body \o post :
             pre \in { x \in ResponsePrefixes : x # << >> /\ Head(x) = Fence },
             post \in { x \in ResponseSuffixes : x # << >> /\ x[Len(x)] = Fence } }

\* C18: a reply that is a well-formed JSON body, bare or wrapped in a leading
\* ``` or ```json and a trailing ```, is parsed by wander, validate,
\* discover_context, integrate_answers and plan to the value of the body.
C18_FenceStrippingTransparent ==
    \A d \in { x \in JsonDocs : x.kind # "malformed" } :
        \A body \in BodyTexts(d) :
            (~claude.raises /\ claude.text \in BareOrWrapped(body)) =>
                /\ pc \in {"wander_done", "plan_done", "discover_context_done",
                           "integrate_answers_done"} =>
                       /\ intelligence_out.status = "ok"
                       /\ intelligence_out.value = d
                /\ pc = "validate_done" =>
                       /\ validate_out.status # "ParseError"
                       /\ validate_out.status = "ok" =>
                              validate_out.result.confidence = d.confidence

\* ------------------------------------------------- forecast extraction
\* the decimal and the percentage tokens of the response under extraction
DecimalTokens == FindAllDecimal(forecaster.text, 1)
PercentTokens == FindAllPercent(forecaster.text, 1)

\* the service answered with a text
Answered == forecaster.token /\ ~forecaster.raises

DecimalTokenValue(k) ==
    FloatOf(forecaster.text, DecimalTokens[k][1], DecimalTokens[k][2])
PercentTokenValue(k) ==
    IntOf(forecaster.text, PercentTokens[k][1], PercentTokens[k][2] - 1)

\* C4: a response with at least one decimal probability token yields the
\* value of its last decimal token, within [0,1], whatever decimal tokens
\* come before it and whatever percentage tokens the text holds.
C4_LastDecimalWins ==
    (pc = "forecast_done" /\ Answered /\ DecimalTokens # << >>) =>
        /\ forecast_out = Some(DecimalTokenValue(Len(DecimalTokens)))
        /\ forecast_out[1] >= 0 /\ forecast_out[1] <= Scale

\* two decimal tokens of different value and a percentage token of a third
C4_Witness ==
    /\ pc = "forecast_done" /\ Answered
    /\ Len(DecimalTokens) >= 2
    /\ DecimalTokenValue(1) # DecimalTokenValue(Len(DecimalTokens))
    /\ PercentTokens # << >>
    /\ PercentTokenValue(Len(PercentTokens)) * Scale
           # 100 * DecimalTokenValue(Len(DecimalTokens))
    /\ forecast_out = Some(DecimalTokenValue(Len(DecimalTokens)))

\* C5: percentage tokens count only in a response without decimal token;
\* then the result is the last percentage token over 100, and 1.0 when that
\* exceeds 1.0; a response with neither kind of token yields None.
C5_PercentFallback ==
    (pc = "forecast_done" /\ Answered) =>
        /\ (DecimalTokens # << >> /\ PercentTokens # << >>) =>
               forecast_out = Some(DecimalTokenValue(Len(DecimalTokens)))
        /\ (DecimalTokens = << >> /\ PercentTokens # << >>) =>
               LET v == PercentTokenValue(Len(PercentTokens))
               IN  forecast_out = Some(IF v > 100 THEN Scale
                                       ELSE (v * Scale) \div 100)
        /\ (DecimalTokens = << >> /\ PercentTokens = << >>) =>
               forecast_out = None

\* no decimal token, two percentage tokens, the last one above 100
C5_Witness ==
    /\ pc = "forecast_done" /\ Answered
    /\ DecimalTokens = << >>
    /\ Len(PercentTokens) >= 2
    /\ PercentTokenValue(1) < 100
    /\ PercentTokenValue(Len(PercentTokens)) > 100
    /\ forecast_out = Some(Scale)

\* ------------------------------------------------------------ validate
\* the forecasting service is unconfigured, its call raises, or its
\* response holds no probability token
ForecastUnavailable ==
    \/ ~forecaster.token
    \/ forecaster.raises
    \/ (DecimalTokens = << >> /\ PercentTokens = << >>)

\* the JSON document inside the reasoning service's response
ReplyDoc ==
    claude.text[CHOOSE i \in 1..Len(claude.text) : claude.text[i].t = "body"].doc

\* the response is the bare document, or the document inside ``` ... ```
BareOrFenced ==
    LET text == claude.text
    IN  \/ \A i \in 1..Len(text) : text[i].t \in {"body", "ws"}
        \/ Len(text) >= 3 /\ text[1].t = "fence" /\ text[Len(text)].t = "fence"

\* the reasoning service answered with a complete validation object
CompleteReply ==
    /\ ~claude.raises
    /\ BareOrFenced
    /\ ReplyDoc.kind = "object"
    /\ ReplyDoc.confidence # None
    /\ ReplyDoc.fields_ok

\* C1: without a usable forecast get_calibrated_probability returns None,
\* and validate still ends as the reasoning service's reply decides: a
\* complete reply gives a result with that reply's confidence and with
\* calibrated_confidence = None, whatever the reply says about calibration.
C1_ForecastUnavailableIsNone ==
    (pc = "validate_done" /\ ForecastUnavailable) =>
        /\ forecast_out = None
        /\ validate_out.result.calibrated_confidence = None
        /\ CompleteReply =>
               /\ validate_out.status = "ok"
               /\ validate_out.result.confidence = ReplyDoc.confidence
        /\ validate_out.status \in
               {"ok", "UpstreamFailure", "ParseError", "TypeError", "ValidationError"}
        /\ (validate_out.status = "UpstreamFailure") = claude.raises

\* no token, and a complete reply that carries a calibrated_confidence of
\* its own
C1_Witness ==
    /\ pc = "validate_done"
    /\ ~forecaster.token
    /\ CompleteReply
    /\ ReplyDoc.calibrated_confidence # None
    /\ validate_out.status = "ok"
    /\ validate_out.result.calibrated_confidence = None

\* C2: in a result of validate calibrated_confidence is the forecast of
\* Step 1 and confidence is the reasoning service's number; the reply's own
\* calibrated_confidence never reaches the result.
C2_SideBySide ==
    (pc = "validate_done" /\ validate_out.status = "ok") =>
        /\ validate_out.result.calibrated_confidence = forecast_out
        /\ validate_out.result.confidence = ReplyDoc.confidence
        /\ Answered /\ DecimalTokens # << >> =>
               validate_out.result.calibrated_confidence
                   = Some(DecimalTokenValue(Len(DecimalTokens)))

\* a forecast, a different confidence, and a reply with a third number under
\* calibrated_confidence
C2_Witness ==
    /\ pc = "validate_done" /\ validate_out.status = "ok"
    /\ forecast_out # None
    /\ ReplyDoc.calibrated_confidence # None
    /\ ReplyDoc.calibrated_confidence # forecast_out
    /\ ReplyDoc.confidence # forecast_out
    /\ validate_out.result.calibrated_confidence = forecast_out

\* C3: a result of validate has confidence in [0,1] and a
\* calibrated_confidence that is None or in [0,1].
C3_ScoresInUnitInterval ==
    (pc = "validate_done" /\ validate_out.status = "ok") =>
        /\ validate_out.result.confidence[1] >= 0
        /\ validate_out.result.confidence[1] <= Scale
        /\ validate_out.result.calibrated_confidence # None =>
               /\ validate_out.result.calibrated_confidence[1] >= 0
               /\ validate_out.result.calibrated_confidence[1] <= Scale
====
